---------------------------- MODULE Spec2Model ----------------------------
(* consistent_polytope_nd of src/lib/utils.py as a state machine.          *)
(*                                                                         *)
(* One call of the function is one behaviour: Init draws the arguments,    *)
(* every action is one statement group of the function body, and the run   *)
(* ends in pc = "done" (return grid_points) or pc = "raised" (IndexError   *)
(* at range_points[-1]).  Numbers are integers: every value the model      *)
(* draws is exactly representable as a float, so the float arithmetic of   *)
(* the code is exact on them; int(x / step_size) truncates toward zero.    *)
(* Sequences are 1-based: row d and column k of the model are row d-1 and  *)
(* column k-1 of the numpy arrays.                                         *)
EXTENDS Integers, Sequences, FiniteSets

VARIABLES
    args,               \* the arguments as the caller passed them
    params,             \* local params (a matrix: sequence of rows)
    delta_params_min,   \* local delta_params_min (one entry per row)
    delta_params_max,   \* local delta_params_max
    step_size,
    p_min, p_max,       \* per-row minimum and maximum over all columns
    grid_points,        \* the output list
    k,                  \* position of "for k in range(params.shape[1])"
    p_k,                \* params[:, k]
    delta_min_k, delta_max_k,
    delta_ranges,
    d,                  \* position of "for d in range(params.shape[0])"
    delta_min, delta_max,
    num_dp_points,
    range_points,
    delta_combinations,
    i,                  \* position of "for delta_p in delta_combinations"
    pc

vars == <<args, params, delta_params_min, delta_params_max, step_size,
          p_min, p_max, grid_points, k, p_k, delta_min_k, delta_max_k,
          delta_ranges, d, delta_min, delta_max, num_dp_points,
          range_points, delta_combinations, i, pc>>

-----------------------------------------------------------------------------
(* Bounds of the explored arguments *)

MaxLen == 3      \* longest rank-1 params
MaxP == 2        \* rank-1 params values are 0..MaxP
MaxD == 1        \* delta bounds are -MaxD..MaxD
MaxStep == 2     \* step_size is 1..MaxStep

\* shapes (rows, columns) and values of the rank-2 params that are explored
Shapes == {<<1, 3>>, <<2, 1>>, <<2, 2>>}
MatrixValues == {0, 1, 2}

DeltaValues == (0 - MaxD)..MaxD

-----------------------------------------------------------------------------
(* Arithmetic helpers *)

Min(a, b) == IF a <= b THEN a ELSE b

Max(a, b) == IF a >= b THEN a ELSE b

\* int(a / s) for s > 0: Python's int() truncates toward zero
TruncDiv(a, s) == IF a >= 0 THEN a \div s ELSE 0 - ((0 - a) \div s)

\* floor(a / s) for s > 0
FloorDiv(a, s) == a \div s

RECURSIVE SeqMin(_)
SeqMin(s) == IF Len(s) = 1 THEN s[1] ELSE Min(s[1], SeqMin(Tail(s)))

RECURSIVE SeqMax(_)
SeqMax(s) == IF Len(s) = 1 THEN s[1] ELSE Max(s[1], SeqMax(Tail(s)))

Last(s) == s[Len(s)]

\* params.shape[0], params.shape[1]
NumRows(m) == Len(m)

NumCols(m) == Len(m[1])

\* params[:, k]
Column(m, c) == [r \in 1..NumRows(m) |-> m[r][c]]


-----------------------------------------------------------------------------
(* The computations of the function body *)

\* a variant that makes the column params[:, None], the matrix (n, 1)
ExpandColumn(v) == [r \in 1..Len(v) |-> <<v[r]>>]

\* params[None, :] : a rank-1 array of length n becomes the matrix (1, n)
ExpandRow(v) == <<v>>

\* np.array([delta_params_min]) : the scalar bound becomes a length-1 vector
WrapBound(b) == <<b>>

\* np.min(params, axis=1), np.max(params, axis=1)
RowMin(m) == [r \in 1..NumRows(m) |-> SeqMin(m[r])]

RowMax(m) == [r \in 1..NumRows(m) |-> SeqMax(m[r])]

\* np.maximum(delta_params_min, np.maximum(p_min - p_k, -delta_params_max))
FeasibleMin(dmin, dmax, pmin, pk) ==
    [r \in 1..Len(pk) |-> Max(dmin[r], Max(pmin[r] - pk[r], 0 - dmax[r]))]

\* np.minimum(delta_params_max, np.minimum(p_max - p_k, delta_params_max))
FeasibleMax(dmax, pmax, pk) ==
    [r \in 1..Len(pk) |-> Min(dmax[r], Min(pmax[r] - pk[r], dmax[r]))]

\* a variant that rounds the quotient down
NumDpPointsFloor(lo, hi, step) == FloorDiv(hi - lo, step) + 1

\* a variant that forgets the first point
NumDpPointsNoFirst(lo, hi, step) == TruncDiv(hi - lo, step)

\* int((delta_max - delta_min) / step_size) + 1
NumDpPoints(lo, hi, step) == TruncDiv(hi - lo, step) + 1

\* [min(delta_min + j * step_size, delta_max) for j in range(num_dp_points)]
SteppedPoints(lo, hi, step, n) ==
    [j \in 1..Max(n, 0) |-> Min(lo + (j - 1) * step, hi)]

\* a variant that never appends the boundary
AppendBoundaryNever(pts, hi) == pts

\* a variant that compares with <=
AppendBoundaryAlways(pts, hi) == IF Last(pts) <= hi THEN Append(pts, hi) ELSE pts

\* if range_points[-1] < delta_max: range_points.append(delta_max)
AppendBoundary(pts, hi) == IF Last(pts) < hi THEN Append(pts, hi) ELSE pts

\* number of elements of the arrays np.meshgrid(*delta_ranges) returns
RECURSIVE MeshSize(_)
MeshSize(ranges) ==
    IF ranges = <<>> THEN 1 ELSE Len(ranges[1]) * MeshSize(Tail(ranges))

\* a variant in which every axis varies fastest
MeshStrideOne(ranges, r) == 1

\* a variant in which the first axis varies fastest (Fortran order)
MeshStrideFirstFastest(ranges, r) == MeshSize(SubSeq(ranges, 1, r - 1))

\* with indexing="ij" and C-order ravel(), axis r varies with this period in
\* the flat index: the product of the lengths of the axes after r
MeshStride(ranges, r) == MeshSize(SubSeq(ranges, r + 1, Len(ranges)))

\* delta.ravel() for the r-th array of np.meshgrid(*ranges, indexing="ij")
MeshRavel(ranges, r) ==
    [f \in 1..MeshSize(ranges) |->
        ranges[r][(((f - 1) \div MeshStride(ranges, r)) % Len(ranges[r])) + 1]]

\* np.stack([delta.ravel() for delta in delta_mesh], axis=-1)
StackCombinations(ranges) ==
    [f \in 1..MeshSize(ranges) |->
        [r \in 1..Len(ranges) |-> MeshRavel(ranges, r)[f]]]

\* np.clip(delta_p, delta_params_min, delta_params_max)
Clip(x, dmin, dmax) == [r \in 1..Len(x) |-> Min(Max(x[r], dmin[r]), dmax[r])]

-----------------------------------------------------------------------------
(* The arguments of one call *)

\* a rank-1 params with scalar delta bounds
Rank1Args(a) ==
    \E n \in 1..MaxLen : \E v \in [1..n -> 0..MaxP] :
        \E lo \in DeltaValues : \E hi \in DeltaValues :
            a = [ndim |-> 1, params |-> v,
                 delta_params_min |-> lo, delta_params_max |-> hi]

\* a rank-2 params with one pair of delta bounds per row
Rank2Args(a) ==
    \E sh \in Shapes : \E m \in [1..sh[1] -> [1..sh[2] -> MatrixValues]] :
        \E lo \in [1..sh[1] -> DeltaValues] : \E hi \in [1..sh[1] -> DeltaValues] :
            a = [ndim |-> 2, params |-> m,
                 delta_params_min |-> lo, delta_params_max |-> hi]

\* the state at entry: the parameters are bound to the arguments; the locals
\* the body has not assigned yet hold placeholders that no action reads
Init ==
    /\ \/ Rank1Args(args)
       \/ Rank2Args(args)
    /\ params = args.params
    /\ delta_params_min = args.delta_params_min
    /\ delta_params_max = args.delta_params_max
    /\ step_size \in 1..MaxStep
    /\ p_min = <<>>
    /\ p_max = <<>>
    /\ grid_points = <<>>
    /\ k = 1
    /\ p_k = <<>>
    /\ delta_min_k = <<>>
    /\ delta_max_k = <<>>
    /\ delta_ranges = <<>>
    /\ d = 1
    /\ delta_min = 0
    /\ delta_max = 0
    /\ num_dp_points = 0
    /\ range_points = <<>>
    /\ delta_combinations = <<>>
    /\ i = 1
    /\ pc = "normalize"

-----------------------------------------------------------------------------
(* The statements of the function body *)

\* if params.ndim == 1: wrap params and both bounds
Normalize ==
    /\ pc = "normalize"
    /\ IF args.ndim = 1
         THEN /\ params' = ExpandRow(params)
              /\ delta_params_min' = WrapBound(delta_params_min)
              /\ delta_params_max' = WrapBound(delta_params_max)
         ELSE UNCHANGED <<params, delta_params_min, delta_params_max>>
    /\ pc' = "envelope"
    /\ UNCHANGED <<args, step_size, p_min, p_max, grid_points, k, p_k,
                   delta_min_k, delta_max_k, delta_ranges, d, delta_min,
                   delta_max, num_dp_points, range_points,
                   delta_combinations, i>>

\* p_min, p_max, grid_points = [] and the entry of the loop over the columns
Envelope ==
    /\ pc = "envelope"
    /\ p_min' = RowMin(params)
    /\ p_max' = RowMax(params)
    /\ grid_points' = <<>>
    /\ k' = 1
    /\ pc' = "column"
    /\ UNCHANGED <<args, params, delta_params_min, delta_params_max,
                   step_size, p_k, delta_min_k, delta_max_k, delta_ranges, d,
                   delta_min, delta_max, num_dp_points, range_points,
                   delta_combinations, i>>

\* the head of one iteration of the loop over the columns
ColumnBegin ==
    /\ pc = "column"
    /\ k <= NumCols(params)
    /\ p_k' = Column(params, k)
    /\ delta_min_k' = FeasibleMin(delta_params_min, delta_params_max, p_min,
                                  Column(params, k))
    /\ delta_max_k' = FeasibleMax(delta_params_max, p_max, Column(params, k))
    /\ delta_ranges' = <<>>
    /\ d' = 1
    /\ pc' = "dimension"
    /\ UNCHANGED <<args, params, delta_params_min, delta_params_max,
                   step_size, p_min, p_max, grid_points, k, delta_min,
                   delta_max, num_dp_points, range_points,
                   delta_combinations, i>>

\* one iteration of the loop over the rows, up to the list comprehension
StepPoints ==
    /\ pc = "dimension"
    /\ d <= NumRows(params)
    /\ delta_min' = delta_min_k[d]
    /\ delta_max' = delta_max_k[d]
    /\ num_dp_points' = NumDpPoints(delta_min_k[d], delta_max_k[d], step_size)
    /\ range_points' = SteppedPoints(delta_min_k[d], delta_max_k[d], step_size,
                            NumDpPoints(delta_min_k[d], delta_max_k[d], step_size))
    /\ pc' = "boundary"
    /\ UNCHANGED <<args, params, delta_params_min, delta_params_max,
                   step_size, p_min, p_max, grid_points, k, p_k, delta_min_k,
                   delta_max_k, delta_ranges, d, delta_combinations, i>>

\* the rest of the iteration: range_points[-1] exists, the boundary is
\* appended if it is missing and the axis joins delta_ranges
Boundary ==
    /\ pc = "boundary"
    /\ range_points # <<>>
    /\ range_points' = AppendBoundary(range_points, delta_max)
    /\ delta_ranges' = Append(delta_ranges, AppendBoundary(range_points, delta_max))
    /\ d' = d + 1
    /\ pc' = "dimension"
    /\ UNCHANGED <<args, params, delta_params_min, delta_params_max,
                   step_size, p_min, p_max, grid_points, k, p_k, delta_min_k,
                   delta_max_k, delta_min, delta_max, num_dp_points,
                   delta_combinations, i>>

\* range_points is empty: range_points[-1] raises IndexError, which nothing
\* catches, and the call ends
BoundaryIndexError ==
    /\ pc = "boundary"
    /\ range_points = <<>>
    /\ pc' = "raised"
    /\ UNCHANGED <<args, params, delta_params_min, delta_params_max,
                   step_size, p_min, p_max, grid_points, k, p_k, delta_min_k,
                   delta_max_k, delta_ranges, d, delta_min, delta_max,
                   num_dp_points, range_points, delta_combinations, i>>

\* np.meshgrid and np.stack, and the entry of the loop over the combinations
Mesh ==
    /\ pc = "dimension"
    /\ d > NumRows(params)
    /\ delta_combinations' = StackCombinations(delta_ranges)
    /\ i' = 1
    /\ pc' = "emit"
    /\ UNCHANGED <<args, params, delta_params_min, delta_params_max,
                   step_size, p_min, p_max, grid_points, k, p_k, delta_min_k,
                   delta_max_k, delta_ranges, d, delta_min, delta_max,
                   num_dp_points, range_points>>

\* a variant that inserts at the front
PrependPoint(points, col, pk, delta_p) ==
    <<[k |-> col, p_k |-> pk, delta_p |-> delta_p]>> \o points

\* grid_points.append((p_k, delta_p)); the pair holds the view params[:, k],
\* which the model records as the column index with the column's values
AppendPoint(points, col, pk, delta_p) ==
    Append(points, [k |-> col, p_k |-> pk, delta_p |-> delta_p])

\* one iteration of the loop over the combinations
Emit ==
    /\ pc = "emit"
    /\ i <= Len(delta_combinations)
    /\ grid_points' = AppendPoint(grid_points, k, p_k,
            Clip(delta_combinations[i], delta_params_min, delta_params_max))
    /\ i' = i + 1
    /\ UNCHANGED <<args, params, delta_params_min, delta_params_max,
                   step_size, p_min, p_max, k, p_k, delta_min_k, delta_max_k,
                   delta_ranges, d, delta_min, delta_max, num_dp_points,
                   range_points, delta_combinations, pc>>

\* the combinations are exhausted: on to the next column
ColumnEnd ==
    /\ pc = "emit"
    /\ i > Len(delta_combinations)
    /\ k' = k + 1
    /\ pc' = "column"
    /\ UNCHANGED <<args, params, delta_params_min, delta_params_max,
                   step_size, p_min, p_max, grid_points, p_k, delta_min_k,
                   delta_max_k, delta_ranges, d, delta_min, delta_max,
                   num_dp_points, range_points, delta_combinations, i>>

\* return grid_points
Return ==
    /\ pc = "column"
    /\ k > NumCols(params)
    /\ pc' = "done"
    /\ UNCHANGED <<args, params, delta_params_min, delta_params_max,
                   step_size, p_min, p_max, grid_points, k, p_k, delta_min_k,
                   delta_max_k, delta_ranges, d, delta_min, delta_max,
                   num_dp_points, range_points, delta_combinations, i>>

Next ==
    \/ Normalize
    \/ Envelope
    \/ ColumnBegin
    \/ StepPoints
    \/ Boundary
    \/ BoundaryIndexError
    \/ Mesh
    \/ Emit
    \/ ColumnEnd
    \/ Return

Spec == Init /\ [][Next]_vars

-----------------------------------------------------------------------------
(* Properties *)

\* the locals hold the normalized matrix and bound vectors
Normalized == pc # "normalize"

Rows == 1..NumRows(params)

Cols == 1..NumCols(params)

\* the feasible interval of column c, row r
Lo(c, r) == Max(delta_params_min[r],
                Max(SeqMin(params[r]) - params[r][c], 0 - delta_params_max[r]))

Hi(c, r) == Min(delta_params_max[r],
                Min(SeqMax(params[r]) - params[r][c], delta_params_max[r]))

BoundsOrdered == \A r \in Rows : delta_params_min[r] <= delta_params_max[r]

Feasible(point) ==
    \A r \in Rows :
        /\ delta_params_min[r] <= point.delta_p[r]
        /\ point.delta_p[r] <= delta_params_max[r]
        /\ SeqMin(params[r]) <= point.p_k[r] + point.delta_p[r]
        /\ point.p_k[r] + point.delta_p[r] <= SeqMax(params[r])

\* C1: when delta_params_min <= delta_params_max in every row, every pair
\* (p_k, delta_p) of the returned list has delta_p within the delta bounds
\* and p_k + delta_p within [p_min, p_max], in every row.
C1_Feasibility ==
    (pc = "done" /\ BoundsOrdered) =>
        \A a \in DOMAIN grid_points : Feasible(grid_points[a])

SomeInfeasible == \E c \in Cols : \E r \in Rows : Lo(c, r) > Hi(c, r)

\* C2: a call in which some column and row has an infeasible interval
\* (lo > hi) raises no error.
C2_InfeasibleRaisesNothing ==
    (Normalized /\ SomeInfeasible) => pc # "raised"

\* the axes built so far for the current column, with their intervals
BuiltAxes == 1..Len(delta_ranges)

Occurrences(axis, v) == Cardinality({j \in 1..Len(axis) : axis[j] = v})

\* C3: an axis built for an interval with lo <= hi is non-empty, starts at
\* lo, ends at hi and holds hi exactly once, also when hi - lo is not a
\* multiple of step_size; such an interval never makes range_points[-1] fail.
C3_BoundaryInclusion ==
    /\ \A r \in BuiltAxes :
          delta_min_k[r] <= delta_max_k[r] =>
              /\ delta_ranges[r] # <<>>
              /\ delta_ranges[r][1] = delta_min_k[r]
              /\ Last(delta_ranges[r]) = delta_max_k[r]
              /\ Occurrences(delta_ranges[r], delta_max_k[r]) = 1
    /\ pc = "raised" => delta_min > delta_max

\* an axis whose hi was appended because hi - lo is no multiple of step_size
C3_Witness ==
    \E r \in BuiltAxes :
        /\ delta_min_k[r] < delta_max_k[r]
        /\ (delta_max_k[r] - delta_min_k[r]) % step_size # 0
        /\ Len(delta_ranges[r]) >= 2

\* C8: every axis is non-decreasing and has no two equal consecutive values.
C8_Monotonic ==
    \A r \in BuiltAxes :
        \A j \in 1..(Len(delta_ranges[r]) - 1) :
            /\ delta_ranges[r][j] <= delta_ranges[r][j + 1]
            /\ delta_ranges[r][j] # delta_ranges[r][j + 1]

\* an axis of three points whose last stepped value already equals hi
C8_Witness ==
    \E r \in BuiltAxes :
        /\ Len(delta_ranges[r]) >= 3
        /\ (delta_max_k[r] - delta_min_k[r]) % step_size = 0

\* the points of the list comprehension, as the claim states them
SteppedAsClaimed(n) ==
    /\ Len(range_points) = Max(n, 0)
    /\ \A j \in 1..Len(range_points) :
          range_points[j] = Min(delta_min + (j - 1) * step_size, delta_max)

\* C9 as stated: before the append of hi there are
\* n = floor((hi - lo) / step_size) + 1 stepped points (none when n <= 0),
\* the points lo + j*step_size capped at hi, also when hi < lo.
C9_FloorCount ==
    pc = "boundary" =>
        /\ num_dp_points = FloorDiv(delta_max - delta_min, step_size) + 1
        /\ SteppedAsClaimed(FloorDiv(delta_max - delta_min, step_size) + 1)

\* q is (hi - lo) / step_size rounded toward zero
RoundsTowardZero(q, x, step) ==
    IF x >= 0 THEN q * step <= x /\ x < (q + 1) * step
              ELSE (q - 1) * step < x /\ x <= q * step

\* C9 amended: n = trunc((hi - lo) / step_size) + 1, the quotient rounded
\* toward zero, and there are max(n, 0) stepped points lo + j*step_size
\* capped at hi.
C9_TruncCount ==
    pc = "boundary" =>
        /\ RoundsTowardZero(num_dp_points - 1, delta_max - delta_min, step_size)
        /\ SteppedAsClaimed(num_dp_points)

\* hi < lo by less than one step: floor gives no point, the code gives one
C9_Witness ==
    /\ pc = "boundary"
    /\ delta_max < delta_min
    /\ (delta_min - delta_max) % step_size # 0
    /\ Len(range_points) = 1

ZeroAllowed == \A r \in Rows : delta_params_min[r] <= 0 /\ 0 <= delta_params_max[r]

\* C10: when delta_params_min <= 0 <= delta_params_max in every row, every
\* feasible interval has lo <= 0 <= hi, every axis is non-empty,
\* range_points[-1] never fails, the call never raises, and the clip leaves
\* every delta combination unchanged.
C10_ZeroAllowed ==
    (Normalized /\ ZeroAllowed) =>
        /\ \A r \in 1..Len(delta_min_k) :
              delta_min_k[r] <= 0 /\ 0 <= delta_max_k[r]
        /\ \A r \in BuiltAxes : delta_ranges[r] # <<>>
        /\ pc = "boundary" => range_points # <<>>
        /\ pc # "raised"
        /\ \A f \in 1..Len(delta_combinations) :
              Clip(delta_combinations[f], delta_params_min, delta_params_max)
                  = delta_combinations[f]

\* a finished call with a negative lower bound and several pairs
C10_Witness ==
    /\ pc = "done"
    /\ ZeroAllowed
    /\ \E r \in Rows : delta_params_min[r] < 0 /\ 0 < delta_params_max[r]
    /\ Len(grid_points) >= 4

\* every choice of one position on each axis of the current column
AxisPositions ==
    { t \in [BuiltAxes -> 1..Len(delta_combinations)] :
        \A r \in BuiltAxes : t[r] <= Len(delta_ranges[r]) }

\* the rows of delta_combinations that took position t[r] on every axis r
\* (the positions of an axis hold distinct values, by C8)
RowsAt(t) ==
    { f \in 1..Len(delta_combinations) :
        \A r \in BuiltAxes : delta_combinations[f][r] = delta_ranges[r][t[r]] }

\* the pairs the current column has appended
PairsOfColumn == { a \in DOMAIN grid_points : grid_points[a].k = k }

\* C4: the delta vectors of a column before the clip are the Cartesian
\* product of its axes, each combination of axis positions exactly once, so
\* n_1 * ... * n_R of them, and the column emits exactly one pair with its
\* p_k for each, in their order.
C4_CartesianComplete ==
    pc = "emit" =>
        /\ Len(delta_combinations) = Cardinality(AxisPositions)
        /\ \A t \in AxisPositions : Cardinality(RowsAt(t)) = 1
        /\ Cardinality(PairsOfColumn) = i - 1
        /\ \A f \in 1..(i - 1) :
              LET pair == grid_points[Len(grid_points) - (i - 1) + f]
              IN  /\ pair.k = k
                  /\ pair.p_k = Column(params, k)
                  /\ pair.delta_p = Clip(delta_combinations[f],
                                         delta_params_min, delta_params_max)

\* a column of two axes of two points each, all four pairs emitted
C4_Witness ==
    /\ pc = "emit"
    /\ Len(delta_ranges) = 2
    /\ Len(delta_ranges[1]) = 2
    /\ Len(delta_ranges[2]) = 2
    /\ i = 5
    /\ Cardinality(PairsOfColumn) = 4

\* C5: the pairs are grouped by column in increasing column order, and the
\* returned list holds at least one pair of every column unless all of the
\* column's intervals are empty.
C5_ColumnCoverageAndOrder ==
    /\ \A a \in DOMAIN grid_points : \A b \in DOMAIN grid_points :
          a < b => grid_points[a].k <= grid_points[b].k
    /\ pc = "done" =>
          \A c \in Cols :
              (\E r \in Rows : Lo(c, r) <= Hi(c, r)) =>
                  \E a \in DOMAIN grid_points : grid_points[a].k = c

\* a returned list with several pairs for each of two columns
C5_Witness ==
    /\ pc = "done"
    /\ NumCols(params) = 2
    /\ \A c \in Cols :
          Cardinality({a \in DOMAIN grid_points : grid_points[a].k = c}) >= 2

\* the call of the worked example
IsExample ==
    /\ args.ndim = 2
    /\ args.params = <<<<0, 1>>, <<0, 2>>>>
    /\ args.delta_params_min = <<-1, -1>>
    /\ args.delta_params_max = <<1, 1>>
    /\ step_size = 1

ExamplePairs ==
    << [k |-> 1, p_k |-> <<0, 0>>, delta_p |-> <<0, 0>>],
       [k |-> 1, p_k |-> <<0, 0>>, delta_p |-> <<0, 1>>],
       [k |-> 1, p_k |-> <<0, 0>>, delta_p |-> <<1, 0>>],
       [k |-> 1, p_k |-> <<0, 0>>, delta_p |-> <<1, 1>>] >>

\* C6: in the worked example p_min = [0,0] and p_max = [1,2], column 0 has
\* the axes [0,1] and [0,1], and the list starts with the deltas (0,0),
\* (0,1), (1,0), (1,1) paired with p_0 = [0,0], in that order, before any
\* pair of column 1.
C6_WorkedExample ==
    IsExample =>
        /\ pc \notin {"normalize", "envelope"} =>
              p_min = <<0, 0>> /\ p_max = <<1, 2>>
        /\ (k = 1 /\ pc = "emit") => delta_ranges = <<<<0, 1>>, <<0, 1>>>>
        /\ \A a \in DOMAIN grid_points :
              IF a <= 4 THEN grid_points[a] = ExamplePairs[a]
                        ELSE grid_points[a].k = 2
        /\ (k >= 2 /\ pc # "normalize") => Len(grid_points) >= 4

C6_Witness == IsExample /\ pc = "done" /\ Len(grid_points) > 4

\* C7 as stated: a rank-1 params of length R becomes an R x 1 matrix, one
\* column, and every emitted p_k has length R.
C7_RankOneIsColumn ==
    (args.ndim = 1 /\ Normalized) =>
        /\ NumRows(params) = Len(args.params)
        /\ NumCols(params) = 1
        /\ \A a \in DOMAIN grid_points :
              Len(grid_points[a].p_k) = Len(args.params)

\* C7 amended: a rank-1 params of length n becomes a 1 x n matrix, one row
\* and n columns, each of the n entries is processed as a column of its own,
\* and every emitted p_k has length 1.
C7_RankOneIsRow ==
    (args.ndim = 1 /\ Normalized) =>
        /\ NumRows(params) = 1
        /\ NumCols(params) = Len(args.params)
        /\ params[1] = args.params
        /\ Len(delta_params_min) = 1
        /\ Len(delta_params_max) = 1
        /\ \A a \in DOMAIN grid_points :
              /\ Len(grid_points[a].p_k) = 1
              /\ grid_points[a].p_k[1] = args.params[grid_points[a].k]
        /\ pc = "done" => k = Len(args.params) + 1

\* a finished call on a rank-1 params of length 3 with pairs of column 3
C7_Witness ==
    /\ args.ndim = 1
    /\ Len(args.params) = 3
    /\ pc = "done"
    /\ \E a \in DOMAIN grid_points : grid_points[a].k = 3

=============================================================================
